---- MODULE Spec2Model ----
(***************************************************************************)
(* A model of VSXExtensionsModel (packages/vsx-registry/src/browser/       *)
(* vsx-extensions-model.ts): the extension registry, the installed /       *)
(* default-installed / search-result id sets, the debounced and            *)
(* cancellable search update, the installed-scan and resolve.              *)
(*                                                                         *)
(* The event loop is single-threaded: every action below is the code that  *)
(* runs between two suspension points (an await on the plugin host, on the *)
(* registry API, on the progress service or on the debounce timer).        *)
(*                                                                         *)
(* Strings are sequences of one-character strings, so that toLowerCase,    *)
(* indexOf, split, replace, trim and the regular-expression tests are      *)
(* computed as the code computes them.                                     *)
(***************************************************************************)
EXTENDS Integers, Sequences, FiniteSets, TLC

(***************************************************************************)
(* Bounds of the model.                                                    *)
(***************************************************************************)
\* user and host events (query changes, plugin-list changes, resolve calls)
MaxEvents == 2

\* the zoom levels of the preference run from -MaxZoomLevel to MaxZoomLevel
MaxZoomLevel == 1

(***************************************************************************)
(* Strings.                                                                *)
(***************************************************************************)
NoStr == <<>>

Range(s) == {s[i] : i \in 1..Len(s)}

\* String.prototype.toLowerCase, on the alphabet of the model
LowerChar(c) ==
    CASE c = "A" -> "a"
      [] c = "B" -> "b"
      [] c = "C" -> "c"
      [] c = "D" -> "d"
      [] c = "X" -> "x"
      [] c = "Y" -> "y"
      [] c = "Z" -> "z"
      [] OTHER -> c

toLowerCase(s) == [i \in 1..Len(s) |-> LowerChar(s[i])]

\* s.indexOf(t) > -1
Contains(s, t) ==
    \E i \in 0..(Len(s) - Len(t)) : SubSeq(s, i + 1, i + Len(t)) = t

\* s.startsWith(t)
startsWith(s, t) == Len(s) >= Len(t) /\ SubSeq(s, 1, Len(t)) = t

\* s.split(' ')[0]
SplitFirst(s) ==
    IF \E i \in 1..Len(s) : s[i] = " "
    THEN LET i == CHOOSE k \in 1..Len(s) :
                      s[k] = " " /\ \A j \in 1..(k - 1) : s[j] # " "
         IN SubSeq(s, 1, i - 1)
    ELSE s

\* s.replace(t, ''): the first occurrence of t is removed
ReplaceFirst(s, t) ==
    IF Contains(s, t)
    THEN LET i == CHOOSE k \in 0..(Len(s) - Len(t)) :
                      /\ SubSeq(s, k + 1, k + Len(t)) = t
                      /\ \A j \in 0..(k - 1) : SubSeq(s, j + 1, j + Len(t)) # t
         IN SubSeq(s, 1, i) \o SubSeq(s, i + Len(t) + 1, Len(s))
    ELSE s

\* s.trim()
Trim(s) ==
    IF \A i \in 1..Len(s) : s[i] = " "
    THEN <<>>
    ELSE LET a == CHOOSE k \in 1..Len(s) :
                      s[k] # " " /\ \A j \in 1..(k - 1) : s[j] = " "
             b == CHOOSE k \in 1..Len(s) :
                      s[k] # " " /\ \A j \in (k + 1)..Len(s) : s[j] = " "
         IN SubSeq(s, a, b)

\* the collation rank of a character (String.prototype.localeCompare):
\* letters in alphabetical order, the lower-case letter before the upper-case
CharRank(c) ==
    CASE c = "a" -> 1 [] c = "A" -> 2
      [] c = "b" -> 3 [] c = "B" -> 4
      [] c = "c" -> 5 [] c = "C" -> 6
      [] c = "d" -> 7 [] c = "D" -> 8
      [] c = "x" -> 9 [] c = "X" -> 10
      [] c = "y" -> 11 [] c = "Y" -> 12
      [] c = "z" -> 13 [] c = "Z" -> 14
      [] OTHER -> 0

RECURSIVE LexCompare(_, _)
LexCompare(s, t) ==
    IF s = <<>> /\ t = <<>> THEN 0
    ELSE IF s = <<>> THEN -1
    ELSE IF t = <<>> THEN 1
    ELSE IF CharRank(s[1]) < CharRank(t[1]) THEN -1
    ELSE IF CharRank(s[1]) > CharRank(t[1]) THEN 1
    ELSE LexCompare(Tail(s), Tail(t))

\* a.localeCompare(b): letters first, case only to break a tie
localeCompare(s, t) ==
    LET l == LexCompare(toLowerCase(s), toLowerCase(t))
    IN IF l # 0 THEN l ELSE LexCompare(s, t)

(***************************************************************************)
(* The queries the user types.                                             *)
(***************************************************************************)
AtInstalled == <<"@", "i", "n", "s", "t", "a", "l", "l", "e", "d">>
AtBuiltin == <<"@", "b", "u", "i", "l", "t", "i", "n">>

QEmpty == <<>>
QA == <<"a">>
QAB == <<"a", "b">>
\* "@installed A"
QInstalledA == AtInstalled \o <<" ", "A">>
\* "@builtin"
QBuiltin == AtBuiltin

Queries == {QEmpty, QA, QAB, QInstalledA, QBuiltin}

\* "@x": a prefix query whose prefix is no keyword
QUnknown == <<"@", "x">>
\* "@x @builtin": the prefix is no keyword, the rest of the query holds one
QUnknownBuiltin == <<"@", "x", " ">> \o AtBuiltin

\* "@Builtin  Z": the keyword in mixed case, two blanks, an upper-case text
QBuiltinZ == <<"@", "B", "u", "i", "l", "t", "i", "n", " ", " ", "Z">>

\* the prefix queries with a prefix that is no keyword
UnknownPrefixQueries == {QUnknown, QUnknownBuiltin}

(***************************************************************************)
(* The plugin host and the remote registry (the collaborators).            *)
(***************************************************************************)
IdAX == <<"a", ".", "x">>
IdBY == <<"b", ".", "y">>
IdCZ == <<"c", ".", "z">>
IdTP == <<"t", ".", "p">>

\* every id the model knows
Ids == {IdAX, IdBY, IdCZ, IdTP}

\* the plugins the host can report, in the order it enumerates them
HostOrder == <<IdBY, IdAX, IdTP, IdCZ>>

\* the plugins the host reports when it has started
HostPlugins == {IdBY, IdAX, IdTP}

\* the plugins that are installed or uninstalled during the session
ChangingPlugins == {IdAX}

\* a plugin the host deploys later in the session
LatePlugins == {IdCZ}

\* plugin.model.engine.type
EngineType(id) == IF id = IdTP THEN "theia" ELSE "vscode"

\* a plugin shipped with the host (a built-in)
IsSystemPlugin(id) == id \in {IdBY, IdCZ}

\* what the registry holds for an id: the payload of a version lookup and of
\* a search result group
RemoteData(id) ==
    CASE id = IdAX -> [namespace |-> <<"A">>, name |-> <<"X">>,
                       displayName |-> <<"B", "a">>, description |-> <<"d">>,
                       version |-> 1, readmeUrl |-> TRUE, compatible |-> TRUE]
      [] id = IdBY -> [namespace |-> <<"B">>, name |-> <<"Y">>,
                       displayName |-> <<"A", "b">>, description |-> NoStr,
                       version |-> 1, readmeUrl |-> FALSE, compatible |-> TRUE]
      [] id = IdCZ -> [namespace |-> <<"C">>, name |-> <<"Z">>,
                       displayName |-> <<"a", "b">>, description |-> <<"a">>,
                       version |-> 1, readmeUrl |-> TRUE, compatible |-> FALSE]
      [] OTHER -> [namespace |-> <<"T">>, name |-> <<"P">>,
                   displayName |-> <<"t">>, description |-> <<"t">>,
                   version |-> 1, readmeUrl |-> FALSE, compatible |-> TRUE]

\* api.search(param): the result groups of the registry for a query
SearchGroups(q) ==
    CASE q = QA -> <<IdAX, IdCZ, IdBY>>
      [] q = QAB -> <<IdCZ, IdAX>>
      [] OTHER -> <<>>

\* api.getLatestCompatibleVersion(data.allVersions): is there a compatible one
hasCompatibleVersion(id) == RemoteData(id).compatible

\* the ways api.getLatestCompatibleExtensionVersion(id) can end
RefreshOutcomes == {"data", "error", "nothing", "throws"}

\* the ways api.fetchText(readmeUrl) can end
FetchOutcomes == {"ok", "e404", "err"}

\* the ids resolve is called with
ResolveIds == {IdAX, IdCZ}

RawReadme == <<"#", "r">>

(***************************************************************************)
(* The state of the model.                                                 *)
(***************************************************************************)
VARIABLES
    plugins,          \* pluginSupport.plugins: the ids the host reports
    query,            \* search.query
    extensions,       \* the Map id -> VSXExtension (its data)
    installed,        \* _installed, in the iteration order of the Set
    defaultInstalled, \* _defaultInstalled, in the iteration order of the Set
    aliased,          \* _installed and _defaultInstalled are the same Set object
    searchResult,     \* _searchResult
    initPc,           \* where initInstalled is
    scans,            \* updateInstalled calls of the plugin-list handler not yet run
    refreshing,       \* ids with a fire-and-forget refresh awaiting the registry
    debounce,         \* the timer of the debounced updateSearchResult
    tasks,            \* the search-update tasks in flight
    resolves,         \* the resolve calls in flight
    events,           \* user and host events so far
    iter,             \* the iterator a consumer got from an accessor
    ev,               \* what the last step did and which events it fired
    \* ElectronWindowService
    isUnloading,            \* the lock of the beforeunload listener
    closeOnUnload,          \* close the window right away
    prevPreferredZoomLevel, \* <<>> while undefined, else <<level>>
    winPc,                  \* "new", "listening" once registerUnloadListeners
                            \* has run, "unloaded" once an unload went through
    confirmations,          \* setTimeout callbacks of the listener not yet run
    closeRequested,         \* window.close() was called, its beforeunload is due
    preferredZoomLevel,     \* windowPreferences['window.zoomLevel']
    windowZoomLevel,        \* webContents.getZoomLevel()
    wev,                    \* what the last step of the window service did
    \* VSXExtensionsViewContainer
    attached,         \* onAfterAttach has run: the container is in the document
    currentMode,      \* currentMode
    parts,            \* the registered parts: widget id -> hidden, collapsed
    currentPart,      \* currentPart, a widget id or NoPart
    lastModeState,    \* lastModeState: mode -> the stored state, or NoState
    noResultsMsgs     \* the elements with NO_RESULTS_ID in the document, in
                      \* document order: is the class 'hide' set

registry == <<extensions, installed, defaultInstalled, aliased, searchResult>>

\* the state of VSXExtensionsModel and of its collaborators
modelVars == <<plugins, query, extensions, installed, defaultInstalled, aliased,
               searchResult, initPc, scans, refreshing, debounce, tasks, resolves,
               events, iter, ev>>

\* the state of ElectronWindowService and of its window
windowVars == <<isUnloading, closeOnUnload, prevPreferredZoomLevel, winPc,
                confirmations, closeRequested, preferredZoomLevel,
                windowZoomLevel, wev>>

\* the state of VSXExtensionsViewContainer and of its document
containerVars == <<attached, currentMode, parts, currentPart, lastModeState,
                   noResultsMsgs>>

vars == <<modelVars, windowVars, containerVars>>

NoTimer == [pending |-> FALSE, first |-> NoStr, coalesced |-> FALSE]

\* the record of a step that did nothing observable. A step sets: op, the
\* operation; id and q, its extension id and query; change, whether onDidChange
\* fired; results, the count onDidResults fired with (-1: not fired); ret, how
\* the operation ended; remote, whether it called api.search; out, how the
\* awaited collaborator call ended; first, the query at the first call of a
\* debounce window
NoEv ==
    [op |-> "none", id |-> NoStr, q |-> NoStr, change |-> FALSE, results |-> -1,
     ret |-> "none", remote |-> FALSE, out |-> "none", first |-> NoStr]

\* the record of a step of the window service that did nothing observable. A
\* step sets: op, the operation; can, what canUnload() returned; prevented,
\* whether the beforeunload event was prevented; onUnload, whether onUnload
\* fired; asked, whether a confirmation was scheduled; yes, the answer to the
\* dialog; called, whether updateWindowZoomLevel ran; setZoom, whether it
\* called setZoomLevel
NoWev ==
    [op |-> "none", can |-> FALSE, prevented |-> FALSE, onUnload |-> FALSE,
     asked |-> FALSE, yes |-> FALSE, called |-> FALSE, setZoom |-> FALSE]

\* the values of the preference window.zoomLevel
ZoomLevels == (0 - MaxZoomLevel)..MaxZoomLevel

\* the default of window.zoomLevel in the preference schema
DefaultZoomLevel == 0

\* prevPreferredZoomLevel before the first update
NoLevel == <<>>

\* no iterator. An iterator holds: set, the accessor it came from; taken, the
\* members of the Set when the accessor was called; left, the members of that
\* Set object now, which is what the iterator yields; cur and def, whether
\* that object is the one _installed and _defaultInstalled are bound to
NoIter ==
    [set |-> "none", taken |-> <<>>, left |-> <<>>, cur |-> FALSE, def |-> FALSE]

(***************************************************************************)
(* VSXExtension.                                                           *)
(***************************************************************************)
\* extensionFactory({ id }): an extension that holds its id only
newExtension ==
    [displayName |-> NoStr, description |-> NoStr, publisher |-> NoStr,
     version |-> 0, readmeUrl |-> FALSE, readme |-> NoStr]

\* extension.update(data): the fields data holds are merged into the instance
update(e, d) ==
    [e EXCEPT !.displayName = IF d.displayName # NoStr THEN d.displayName ELSE @,
              !.description = IF d.description # NoStr THEN d.description ELSE @,
              !.publisher = d.namespace,
              !.version = d.version,
              !.readmeUrl = d.readmeUrl]

\* extension.installed: the host reports a plugin with the id of the extension
isInstalled(id, plgs) == id \in plgs

\* extension.builtin: that plugin is shipped with the host
isBuiltin(id, plgs) == id \in plgs /\ IsSystemPlugin(id)

getExtension(exts, id) == IF id \in DOMAIN exts THEN exts[id] ELSE newExtension

hasExtension(exts, id) == id \in DOMAIN exts

\* setExtension(id): the Map after the call
setExtension(exts, id) ==
    IF id \in DOMAIN exts
    THEN exts
    ELSE [i \in DOMAIN exts \cup {id} |-> IF i = id THEN newExtension ELSE exts[i]]

\* setExtension(id).update(data)
setAndUpdate(exts, id, d) ==
    LET m == setExtension(exts, id)
    IN [m EXCEPT ![id] = update(m[id], d)]

(***************************************************************************)
(* compareExtensions and the sort of updateInstalled.                      *)
(***************************************************************************)
compareExtensions(exts, a, b) ==
    IF ~hasExtension(exts, a) \/ ~hasExtension(exts, b) THEN 0
    ELSE IF exts[a].displayName # NoStr /\ exts[b].displayName # NoStr
         THEN localeCompare(exts[a].displayName, exts[b].displayName)
    ELSE IF exts[a].publisher # NoStr /\ exts[b].publisher # NoStr
         THEN localeCompare(exts[a].publisher, exts[b].publisher)
    ELSE 0

\* x put into the sorted sequence s, behind every element it does not precede
RECURSIVE InsertSorted(_, _, _)
InsertSorted(exts, s, x) ==
    IF s = <<>> THEN <<x>>
    ELSE IF compareExtensions(exts, x, s[Len(s)]) < 0
         THEN Append(InsertSorted(exts, SubSeq(s, 1, Len(s) - 1), x), s[Len(s)])
         ELSE Append(s, x)

\* Array.prototype.sort((a, b) => this.compareExtensions(a, b)): a stable
\* insertion sort, which is what the engine runs on a short array
RECURSIVE SortIds(_, _)
SortIds(exts, s) ==
    IF s = <<>> THEN <<>>
    ELSE InsertSorted(exts, SortIds(exts, SubSeq(s, 1, Len(s) - 1)), s[Len(s)])

(***************************************************************************)
(* updateInstalled: the body of the installed-scan.                        *)
(***************************************************************************)
\* the plugins of the host in its enumeration order
pluginList(plgs) == SelectSeq(HostOrder, LAMBDA id : id \in plgs)

\* the scan without the test of the engine type
scannedAnyEngine(plgs) == pluginList(plgs)

\* the plugins of the supported engine type
scanned(plgs) == SelectSeq(pluginList(plgs), LAMBDA id : EngineType(id) = "vscode")

\* what is left of the previous Set after this._installed.delete(id) for
\* every scanned plugin
scanLeft(oldSet, plgs) == SelectSeq(oldSet, LAMBDA id : id \notin Range(scanned(plgs)))

RECURSIVE setExtensions(_, _)
setExtensions(exts, s) ==
    IF s = <<>> THEN exts
    ELSE setExtensions(setExtension(exts, s[1]), Tail(s))

\* the scan with the registry built anew from the plugins of the host
scanExtensionsRebuilt(exts, plgs) ==
    LET m == setExtensions(<<>>, scanned(plgs))
    IN [i \in DOMAIN m |-> IF i \in DOMAIN exts THEN exts[i] ELSE m[i]]

\* the registry after the scan
scanExtensions(exts, plgs) == setExtensions(exts, scanned(plgs))

\* the new _installed without the sort
scanInstalledUnsorted(exts, plgs) == scanned(plgs)

\* the new _installed: the scanned ids, sorted
scanInstalled(exts, plgs) == SortIds(scanExtensions(exts, plgs), scanned(plgs))

\* a scan that starts no refresh
scanRefreshingNone(oldSet, plgs) == {}

\* the ids a refresh is started for
scanRefreshing(oldSet, plgs) ==
    Range(scanned(plgs)) \cup Range(scanLeft(oldSet, plgs))

(***************************************************************************)
(* The local filter.                                                       *)
(***************************************************************************)
getPrefix(q) == SplitFirst(q)

isPrefixQuery(q) == startsWith(q, <<"@">>)

\* /@installed/i.test(prefix)
isInstalledPrefix(prefix) == Contains(toLowerCase(prefix), AtInstalled)

\* /@builtin/i.test(prefix)
isBuiltInPrefix(prefix) == Contains(toLowerCase(prefix), AtBuiltin)

\* query.replace(prefix, '').trim().toLowerCase()
modifiedQuery(q) == toLowerCase(Trim(ReplaceFirst(q, getPrefix(q))))

\* matchResults without the return for a missing name or description
matchResultsNoSkip(id, e, mq) ==
    \/ Contains(toLowerCase(id), mq)
    \/ Contains(toLowerCase(e.displayName), mq)
    \/ Contains(toLowerCase(e.description), mq)

\* matchResults: is the extension added to the results
matchResults(id, e, mq) ==
    /\ e.displayName # NoStr
    /\ e.description # NoStr
    /\ \/ Contains(toLowerCase(id), mq)
       \/ Contains(toLowerCase(e.displayName), mq)
       \/ Contains(toLowerCase(e.description), mq)

\* the candidates without the test of extension.builtin
filterCandidateAnyBuiltin(id, plgs, prefix) ==
    isBuiltInPrefix(prefix) \/ isInstalledPrefix(prefix)

\* the candidates without the tests of the prefix
filterCandidateAny(id, plgs, prefix) == TRUE

\* is the plugin a candidate of the filter with this prefix
filterCandidate(id, plgs, prefix) ==
    \/ isBuiltInPrefix(prefix) /\ isBuiltin(id, plgs)
    \/ isInstalledPrefix(prefix)

\* filterLocalExtensions: the new _installed
filterLocalExtensions(exts, plgs, q) ==
    SelectSeq(pluginList(plgs),
              LAMBDA id : /\ hasExtension(exts, id)
                          /\ filterCandidate(id, plgs, getPrefix(q))
                          /\ matchResults(id, exts[id], modifiedQuery(q)))

\* does filterLocalExtensions fire onDidResults
filterFiresResults(q) == isInstalledPrefix(q) \/ isBuiltInPrefix(q)

(***************************************************************************)
(* The remote search.                                                      *)
(***************************************************************************)
\* the id of a result group without the toLowerCase calls
searchIdAsGiven(d) == d.namespace \o <<".">> \o d.name

\* data.namespace.toLowerCase() + '.' + data.name.toLowerCase()
searchId(d) == toLowerCase(d.namespace) \o <<".">> \o toLowerCase(d.name)

\* the groups of a result that have a latest compatible version
compatibleGroups(groups) == SelectSeq(groups, LAMBDA g : hasCompatibleVersion(g))

RECURSIVE searchExtensions(_, _)
searchExtensions(exts, groups) ==
    IF groups = <<>> THEN exts
    ELSE searchExtensions(
             setAndUpdate(exts, searchId(RemoteData(groups[1])), RemoteData(groups[1])),
             Tail(groups))

\* getSearchResults with the id added before the compatible version is looked up
getSearchResultsUnchecked(groups) ==
    {searchId(RemoteData(g)) : g \in Range(groups)}

\* getSearchResults: the registry and the new _searchResult
getSearchResultsExtensions(exts, groups) ==
    searchExtensions(exts, compatibleGroups(groups))

getSearchResults(groups) ==
    {searchId(RemoteData(g)) : g \in Range(compatibleGroups(groups))}

\* onDidResults fired with the number of result groups
getSearchResultsFiresGroups(groups) == Len(groups)

\* getSearchResults: the count onDidResults is fired with
getSearchResultsFires(groups) == Cardinality(getSearchResults(groups))

(***************************************************************************)
(* refresh and onDidFailRefresh.                                           *)
(***************************************************************************)
\* onDidFailRefresh without the test of cached.installed
onDidFailRefreshAnyCached(exts, plgs, id) == hasExtension(exts, id)

\* onDidFailRefresh that never returns the cached extension
onDidFailRefreshNever(exts, plgs, id) == FALSE

\* onDidFailRefresh: is the cached extension returned
onDidFailRefresh(exts, plgs, id) == hasExtension(exts, id) /\ isInstalled(id, plgs)

\* refresh without the test of data.error: the error payload is merged
refreshExtensionsNoErrorCheck(exts, id, o) ==
    IF o \in {"data", "error"}
    THEN setAndUpdate(exts, id,
             IF o = "data" THEN RemoteData(id)
             ELSE [RemoteData(id) EXCEPT !.namespace = NoStr, !.version = 0,
                                         !.readmeUrl = FALSE])
    ELSE exts

\* refresh: the registry after the lookup has ended with outcome o
refreshExtensions(exts, id, o) ==
    IF o = "data" THEN setAndUpdate(exts, id, RemoteData(id)) ELSE exts

\* refresh without the test of !data: reading data.error throws and the catch
\* block hands the id to onDidFailRefresh
refreshReturnsNoDataCheck(exts, plgs, id, o) ==
    IF o = "data" THEN TRUE ELSE onDidFailRefresh(exts, plgs, id)

\* refresh: is an extension returned
refreshReturns(exts, plgs, id, o) ==
    CASE o = "data" -> TRUE
      [] o = "nothing" -> FALSE
      [] OTHER -> onDidFailRefresh(exts, plgs, id)

\* refresh: what the caller gets
refreshResult(exts, plgs, id, o) ==
    IF ~refreshReturns(exts, plgs, id, o) THEN "undefined"
    ELSE IF o = "data" THEN "refreshed"
    ELSE "cached"

\* compileReadme: the markdown heading becomes a second-level HTML heading
compileReadme(raw) ==
    IF raw # <<>> /\ raw[1] = "#"
    THEN <<"<h2>">> \o Tail(raw) \o <<"</h2>">>
    ELSE raw

(***************************************************************************)
(* doChange.                                                               *)
(***************************************************************************)
\* doChange without the test of the token after the task
doChangeFiresUnchecked(cancelled, threw) == ~threw

\* doChange firing onDidChange behind a task that has thrown
doChangeFiresOnThrow(cancelled, threw) == ~cancelled

\* doChange: does onDidChange fire for a task whose token is, or is not,
\* cancelled when the task has ended, and that has, or has not, thrown
doChangeFires(cancelled, threw) == ~threw /\ ~cancelled

(***************************************************************************)
(* The debounced updateSearchResult.                                       *)
(***************************************************************************)
\* a call of the debounced function: the timer is started, or started again
debounceCall(d, q) ==
    IF d.pending
    THEN [d EXCEPT !.coalesced = TRUE]
    ELSE [pending |-> TRUE, first |-> q, coalesced |-> FALSE]

\* the query of the first call of the window, not the one read at execution
executedQueryAtCall(d, q) == d.first

\* const query = this.search.query, read when the debounced function runs
executedQuery(d, q) == q

\* the debounced function without searchCancellationTokenSource.cancel()
cancelTokensNone(ts) == ts

\* searchCancellationTokenSource.cancel(): every earlier token is cancelled
cancelTokens(ts) == {[t EXCEPT !.cancelled = TRUE] : t \in ts}

(***************************************************************************)
(* VSXExtensionsViewContainer: the mode, the parts and the message for no  *)
(* results.                                                                *)
(***************************************************************************)
\* VSXExtensionsViewContainer.Mode
InitialMode == 0
DefaultMode == 1
SearchResultMode == 2
InstalledMode == 3
BuiltinMode == 4

\* the ids of the widgets the parts wrap
SearchResultId == "vsx-extensions:search-result"
InstalledId == "vsx-extensions:installed"
BuiltInId == "vsx-extensions:builtin"

\* the parts in the order they are added to the container
PartOrder == <<SearchResultId, InstalledId, BuiltInId>>

\* no part
NoPart == "undefined"

\* no stored state of a mode
NoState == <<>>

\* getCurrentMode without the test for '@builtin'
getCurrentModeNoBuiltin(q) ==
    IF q = NoStr THEN DefaultMode
    ELSE IF startsWith(q, AtInstalled) THEN InstalledMode
    ELSE SearchResultMode

\* getCurrentMode: the mode of the query
getCurrentMode(q) ==
    IF q = NoStr THEN DefaultMode
    ELSE IF startsWith(q, AtInstalled) THEN InstalledMode
    ELSE IF startsWith(q, AtBuiltin) THEN BuiltinMode
    ELSE SearchResultMode

\* document.getElementById(NO_RESULTS_ID): is there such an element
hasNoResultsMsg(msgs) == msgs # <<>>

\* the elements after classList.add('hide') or classList.remove('hide') on
\* the one getElementById returns, the first of them
setHidden(msgs, hide) ==
    IF hasNoResultsMsg(msgs) THEN [msgs EXCEPT ![1] = hide] ELSE msgs

\* getCurrentMode: the message is hidden when the query is empty
getCurrentModeMsgs(q, msgs) ==
    IF q = NoStr THEN setHidden(msgs, TRUE) ELSE msgs

\* getCorrespondingMode: the mode of a part
getCorrespondingMode(part) ==
    CASE part = SearchResultId -> SearchResultMode
      [] part = InstalledId -> InstalledMode
      [] part = BuiltInId -> BuiltinMode
      [] OTHER -> DefaultMode

\* applyModeToPart with every part shown in the default mode
applyModeToPartShowsAll(mode, part, p) ==
    IF mode # DefaultMode
    THEN IF mode = getCorrespondingMode(part)
         THEN [p EXCEPT !.hidden = FALSE, !.collapsed = FALSE]
         ELSE [p EXCEPT !.hidden = TRUE]
    ELSE [p EXCEPT !.hidden = FALSE]

\* applyModeToPart: the part after show(), hide() and collapsed = false
applyModeToPart(mode, part, p) ==
    IF mode # DefaultMode
    THEN IF mode = getCorrespondingMode(part)
         THEN [p EXCEPT !.hidden = FALSE, !.collapsed = FALSE]
         ELSE [p EXCEPT !.hidden = TRUE]
    ELSE [p EXCEPT !.hidden = (part \notin {InstalledId, BuiltInId})]

\* applyModeToPart: does it make the part the current part
applyModeSetsCurrent(mode, part) ==
    mode # DefaultMode /\ mode = getCorrespondingMode(part)

\* currentPart after applyModeToPart has run for every part of ps
currentPartAfterMode(mode, ps, current) ==
    IF \E part \in DOMAIN ps : applyModeSetsCurrent(mode, part)
    THEN CHOOSE part \in DOMAIN ps : applyModeSetsCurrent(mode, part)
    ELSE current

\* super.doStoreState(): the state of the parts
doStoreState(ps) == ps

\* super.doRestoreState(state): the parts that the state knows get the
\* state they had
doRestoreState(ps, state) ==
    [part \in DOMAIN ps |-> IF part \in DOMAIN state THEN state[part] ELSE ps[part]]

\* lastModeState after updateMode has left the mode old
storeModeState(states, old, ps) ==
    IF old # InitialMode THEN [states EXCEPT ![old] = doStoreState(ps)] ELSE states

\* updateMode for the query q
updateMode(q) ==
    LET mode == getCurrentMode(q)
        restored == doRestoreState(parts, lastModeState[mode])
    IN /\ noResultsMsgs' = getCurrentModeMsgs(q, noResultsMsgs)
       /\ IF mode = currentMode
          THEN UNCHANGED <<currentMode, parts, currentPart, lastModeState>>
          ELSE /\ lastModeState' = storeModeState(lastModeState, currentMode, parts)
               /\ currentMode' = mode
               /\ parts' = [part \in DOMAIN parts |->
                                applyModeToPart(mode, part, restored[part])]
               /\ currentPart' = currentPartAfterMode(mode, parts, currentPart)

\* a part as the container gets it with a widget
NewPart == [hidden |-> FALSE, collapsed |-> TRUE]

\* registerPart for each widget added to the new container: applyModeToPart
\* runs in the initial mode
registerParts ==
    [part \in Range(PartOrder) |-> applyModeToPart(InitialMode, part, NewPart)]

\* the handler of search.onDidChangeQuery, subscribed while the container is
\* attached
onDidChangeQuery(q) ==
    IF attached
    THEN updateMode(q) /\ UNCHANGED attached
    ELSE UNCHANGED <<attached, currentMode, parts, currentPart, lastModeState,
                     noResultsMsgs>>

\* the handler of onDidResults that does not show a hidden message again
noResultsAfterResultsNoReshow(msgs, current, count) ==
    IF current = NoPart THEN msgs
    ELSE IF count = 0
         THEN IF ~hasNoResultsMsg(msgs) THEN Append(msgs, FALSE) ELSE msgs
    ELSE IF hasNoResultsMsg(msgs) /\ count > 0 THEN setHidden(msgs, TRUE)
    ELSE msgs

\* the handler of model.onDidResults: the elements of the message after it
noResultsAfterResults(msgs, current, count) ==
    IF current = NoPart THEN msgs
    ELSE IF count = 0
         THEN IF ~hasNoResultsMsg(msgs) THEN Append(msgs, FALSE)
              ELSE setHidden(msgs, FALSE)
    ELSE IF hasNoResultsMsg(msgs) /\ count > 0 THEN setHidden(msgs, TRUE)
    ELSE msgs

\* the model fires onDidResults(count), or fires nothing (count = -1)
onDidResults(count) ==
    /\ noResultsMsgs' = IF count = -1 THEN noResultsMsgs
                        ELSE noResultsAfterResults(noResultsMsgs, currentPart, count)
    /\ UNCHANGED <<attached, currentMode, parts, currentPart, lastModeState>>

(***************************************************************************)
(* The state after construction: init() has run initInstalled up to its    *)
(* await of willStart and initSearchResult up to its await of the          *)
(* debounced updateSearchResult, and has resolved `initialized`.           *)
(***************************************************************************)
Init ==
    /\ plugins = HostPlugins
    /\ query = QEmpty
    /\ extensions = <<>>
    /\ installed = <<>>
    /\ defaultInstalled = <<>>
    /\ aliased = FALSE
    /\ searchResult = {}
    /\ initPc = "willStart"
    /\ scans = 0
    /\ refreshing = {}
    /\ debounce = debounceCall(NoTimer, QEmpty)
    /\ tasks = {}
    /\ resolves = {}
    /\ events = 0
    /\ iter = NoIter
    /\ ev = [NoEv EXCEPT !.op = "init"]
    /\ isUnloading = FALSE
    /\ closeOnUnload = FALSE
    /\ prevPreferredZoomLevel = NoLevel
    /\ winPc = "new"
    /\ confirmations = 0
    /\ closeRequested = FALSE
    /\ preferredZoomLevel = DefaultZoomLevel
    /\ windowZoomLevel = DefaultZoomLevel
    /\ wev = NoWev
    /\ attached = FALSE
    /\ currentMode = InitialMode
    /\ parts = registerParts
    /\ currentPart = NoPart
    /\ lastModeState = [mode \in DefaultMode..BuiltinMode |-> NoState]
    /\ noResultsMsgs = <<>>

(***************************************************************************)
(* The plugin host.                                                        *)
(***************************************************************************)
\* pluginSupport.willStart resolves: initInstalled subscribes to
\* onDidChangePlugins and calls updateInstalled
WillStart ==
    /\ initPc = "willStart"
    /\ initPc' = "scan"
    /\ ev' = [NoEv EXCEPT !.op = "willStart"]
    /\ UNCHANGED windowVars
    /\ UNCHANGED containerVars
    /\ UNCHANGED iter
    /\ UNCHANGED <<plugins, query, registry, scans, refreshing, debounce, tasks,
                   resolves, events>>

\* progressService.withProgress, called by doChange: the progress is shown
\* first and the task runs in a later turn of the event loop; n tasks wait
withProgress(n) == n + 1

\* the handler of onDidChangePlugins: updateInstalled is called and not
\* awaited, then _defaultInstalled = _installed
onDidChangePlugins ==
    /\ scans' = withProgress(scans)
    /\ defaultInstalled' = installed
    /\ aliased' = TRUE

\* the host installs or uninstalls plugin p and, once initInstalled has
\* subscribed, the handler runs
PluginsChanged(p) ==
    /\ events < MaxEvents
    /\ events' = events + 1
    /\ plugins' = IF p \in plugins THEN plugins \ {p} ELSE plugins \cup {p}
    /\ IF initPc # "willStart"
       THEN onDidChangePlugins
       ELSE UNCHANGED <<scans, defaultInstalled, aliased>>
    /\ ev' = [NoEv EXCEPT !.op = "pluginsChanged", !.id = p]
    /\ UNCHANGED windowVars
    /\ UNCHANGED containerVars
    /\ iter' = IF initPc # "willStart" THEN [iter EXCEPT !.def = iter.cur] ELSE iter
    /\ UNCHANGED <<query, extensions, installed, searchResult, initPc, refreshing,
                   debounce, tasks, resolves>>

(***************************************************************************)
(* The installed-scan.                                                     *)
(***************************************************************************)
\* the task of updateInstalled, run by doChange (no token): the scan replaces
\* _installed, starts the refreshes and onDidChange fires
updateInstalled ==
    /\ extensions' = scanExtensions(extensions, plugins)
    /\ installed' = scanInstalled(extensions, plugins)
    /\ refreshing' = refreshing \cup scanRefreshing(installed, plugins)

\* an iterator after a scan: the scan deletes the scanned ids from the Set
\* _installed is bound to, then binds _installed to a new Set
iteratorAfterScan(it, plgs, keepsDefault) ==
    [it EXCEPT !.left = IF it.cur THEN scanLeft(it.left, plgs) ELSE @,
               !.cur = FALSE,
               !.def = it.def /\ keepsDefault]

\* the scan that the plugin-list handler asked for
ScanRun ==
    /\ scans > 0
    /\ scans' = scans - 1
    /\ updateInstalled
    /\ defaultInstalled' = IF aliased THEN scanLeft(installed, plugins)
                           ELSE defaultInstalled
    /\ aliased' = FALSE
    /\ ev' = [NoEv EXCEPT !.op = "scan", !.change = doChangeFires(FALSE, FALSE),
                            !.ret = "ok"]
    /\ UNCHANGED windowVars
    /\ UNCHANGED containerVars
    /\ iter' = iteratorAfterScan(iter, plugins, TRUE)
    /\ UNCHANGED <<plugins, query, searchResult, initPc, debounce, tasks,
                   resolves, events>>

\* a snapshot taken before the awaited scan has replaced _installed
initialSnapshotBeforeScan(before, after) == before

\* _defaultInstalled = _installed behind the awaited initial scan: the Set
\* that _installed is bound to after the scan
initialSnapshot(before, after) == after

\* the initial scan of initInstalled and what follows its await:
\* _defaultInstalled = _installed and a call of updateSearchResult
InitScanRun ==
    /\ initPc = "scan"
    /\ initPc' = "done"
    /\ updateInstalled
    /\ defaultInstalled' = initialSnapshot(installed, installed')
    /\ aliased' = TRUE
    /\ debounce' = debounceCall(debounce, query)
    /\ ev' = [NoEv EXCEPT !.op = "initScan",
                           !.change = doChangeFires(FALSE, FALSE), !.ret = "ok"]
    /\ UNCHANGED windowVars
    /\ UNCHANGED containerVars
    /\ iter' = iteratorAfterScan(iter, plugins, FALSE)
    /\ UNCHANGED <<plugins, query, searchResult, scans, tasks, resolves, events>>

\* a refresh started by a scan ends with outcome o; its result is dropped
RefreshDone(id, o) ==
    /\ id \in refreshing
    /\ refreshing' = refreshing \ {id}
    /\ extensions' = refreshExtensions(extensions, id, o)
    /\ ev' = [NoEv EXCEPT !.op = "refresh", !.id = id, !.out = o,
                           !.ret = refreshResult(extensions, plugins, id, o)]
    /\ UNCHANGED windowVars
    /\ UNCHANGED containerVars
    /\ UNCHANGED iter
    /\ UNCHANGED <<plugins, query, installed, defaultInstalled, aliased,
                   searchResult, initPc, scans, debounce, tasks, resolves, events>>

(***************************************************************************)
(* The search update.                                                      *)
(***************************************************************************)
\* the user changes the query: the search model fires onDidChangeQuery and
\* the handler calls the debounced updateSearchResult
SetQuery(q) ==
    /\ events < MaxEvents
    /\ events' = events + 1
    /\ q # query
    /\ query' = q
    /\ debounce' = debounceCall(debounce, q)
    /\ ev' = [NoEv EXCEPT !.op = "setQuery", !.q = q]
    /\ UNCHANGED windowVars
    /\ onDidChangeQuery(q)
    /\ UNCHANGED iter
    /\ UNCHANGED <<plugins, registry, initPc, scans, refreshing, tasks, resolves>>

\* the debounce timer expires: the previous token is cancelled, the query is
\* read and doUpdateSearchResult hands its task to doChange
DebounceFire ==
    /\ debounce.pending
    /\ LET new == [q |-> executedQuery(debounce, query), pc |-> "pending",
                   cancelled |-> FALSE]
       IN /\ tasks' = cancelTokens(tasks) \cup {new}
          /\ ev' = [NoEv EXCEPT !.op = "exec", !.q = new.q,
                                 !.first = debounce.first,
                                 !.out = IF debounce.coalesced THEN "coalesced"
                                         ELSE "single"]
    /\ debounce' = NoTimer
    /\ UNCHANGED windowVars
    /\ UNCHANGED containerVars
    /\ UNCHANGED iter
    /\ UNCHANGED <<plugins, query, registry, initPc, scans, refreshing, resolves,
                   events>>

\* the branches with the test for the empty query left out
searchBranchNoEmpty(q) ==
    IF isPrefixQuery(q) THEN "filter" ELSE "remote"

\* the branches with every query but the empty one filtered locally
searchBranchAllLocal(q) ==
    IF q = QEmpty THEN "restore" ELSE "filter"

\* the branch the task of doUpdateSearchResult takes for a query
searchBranch(q) ==
    IF q = QEmpty THEN "restore"
    ELSE IF isPrefixQuery(q) THEN "filter"
    ELSE "remote"

\* doChange finds the token of the task cancelled before it runs the task
SearchSkip(t) ==
    /\ t \in tasks
    /\ t.pc = "pending"
    /\ t.cancelled
    /\ tasks' = tasks \ {t}
    /\ ev' = [NoEv EXCEPT !.op = "search", !.q = t.q, !.ret = "cancelled",
                           !.change = doChangeFires(t.cancelled, FALSE)]
    /\ UNCHANGED windowVars
    /\ UNCHANGED containerVars
    /\ UNCHANGED iter
    /\ UNCHANGED <<plugins, query, registry, initPc, scans, refreshing, debounce,
                   resolves, events>>

\* the task of doUpdateSearchResult for the empty query:
\* this._installed = this._defaultInstalled
SearchEmpty(t) ==
    /\ t \in tasks
    /\ t.pc = "pending"
    /\ ~t.cancelled
    /\ searchBranch(t.q) = "restore"
    /\ installed' = defaultInstalled
    /\ aliased' = TRUE
    /\ tasks' = tasks \ {t}
    /\ ev' = [NoEv EXCEPT !.op = "search", !.q = t.q, !.ret = "ok",
                           !.change = doChangeFires(t.cancelled, FALSE)]
    /\ UNCHANGED windowVars
    /\ UNCHANGED containerVars
    /\ iter' = [iter EXCEPT !.cur = iter.def]
    /\ UNCHANGED <<plugins, query, extensions, defaultInstalled, searchResult,
                   initPc, scans, refreshing, debounce, resolves, events>>

\* the task of doUpdateSearchResult for a prefix query: filterLocalExtensions
SearchFilter(t) ==
    /\ t \in tasks
    /\ t.pc = "pending"
    /\ ~t.cancelled
    /\ searchBranch(t.q) = "filter"
    /\ installed' = filterLocalExtensions(extensions, plugins, t.q)
    /\ aliased' = FALSE
    /\ tasks' = tasks \ {t}
    /\ ev' = [NoEv EXCEPT !.op = "filter", !.q = t.q, !.ret = "ok",
                           !.change = doChangeFires(t.cancelled, FALSE),
                           !.results = IF filterFiresResults(t.q)
                                       THEN Len(installed') ELSE -1]
    /\ UNCHANGED windowVars
    /\ onDidResults(ev'.results)
    /\ iter' = [iter EXCEPT !.cur = FALSE]
    /\ UNCHANGED <<plugins, query, extensions, defaultInstalled, searchResult,
                   initPc, scans, refreshing, debounce, resolves, events>>

\* the task of doUpdateSearchResult for any other query: api.search is called
\* and awaited
SearchRemote(t) ==
    /\ t \in tasks
    /\ t.pc = "pending"
    /\ ~t.cancelled
    /\ searchBranch(t.q) = "remote"
    /\ tasks' = (tasks \ {t}) \cup {[t EXCEPT !.pc = "awaitApi"]}
    /\ ev' = [NoEv EXCEPT !.op = "search", !.q = t.q, !.remote = TRUE,
                           !.ret = "awaiting"]
    /\ UNCHANGED windowVars
    /\ UNCHANGED containerVars
    /\ UNCHANGED iter
    /\ UNCHANGED <<plugins, query, registry, initPc, scans, refreshing, debounce,
                   resolves, events>>

\* api.search resolves: getSearchResults runs (the token is not looked at),
\* then doChange fires onDidChange unless the token of the task is cancelled
SearchApiDone(t) ==
    /\ t \in tasks
    /\ t.pc = "awaitApi"
    /\ tasks' = tasks \ {t}
    /\ extensions' = getSearchResultsExtensions(extensions, SearchGroups(t.q))
    /\ searchResult' = getSearchResults(SearchGroups(t.q))
    /\ ev' = [NoEv EXCEPT !.op = "searchDone", !.q = t.q, !.out = "ok",
                           !.results = getSearchResultsFires(SearchGroups(t.q)),
                           !.change = doChangeFires(t.cancelled, FALSE),
                           !.ret = IF t.cancelled THEN "cancelled" ELSE "ok"]
    /\ UNCHANGED windowVars
    /\ onDidResults(ev'.results)
    /\ UNCHANGED iter
    /\ UNCHANGED <<plugins, query, installed, defaultInstalled, aliased, initPc,
                   scans, refreshing, debounce, resolves, events>>

\* api.search rejects: the task throws and doChange passes the error on
SearchApiFail(t) ==
    /\ t \in tasks
    /\ t.pc = "awaitApi"
    /\ tasks' = tasks \ {t}
    /\ ev' = [NoEv EXCEPT !.op = "searchDone", !.q = t.q, !.out = "rejected",
                           !.change = doChangeFires(t.cancelled, TRUE),
                           !.ret = "error"]
    /\ UNCHANGED windowVars
    /\ UNCHANGED containerVars
    /\ UNCHANGED iter
    /\ UNCHANGED <<plugins, query, registry, initPc, scans, refreshing, debounce,
                   resolves, events>>

(***************************************************************************)
(* resolve.                                                                *)
(***************************************************************************)
\* resolve(id) is called and doChange runs its task: `initialized` is
\* resolved since construction, so refresh(id) is called and awaited
ResolveCall(id) ==
    /\ events < MaxEvents
    /\ events' = events + 1
    /\ [id |-> id, pc |-> "refresh"] \notin resolves
    /\ resolves' = resolves \cup {[id |-> id, pc |-> "refresh"]}
    /\ ev' = [NoEv EXCEPT !.op = "resolveCall", !.id = id]
    /\ UNCHANGED windowVars
    /\ UNCHANGED containerVars
    /\ UNCHANGED iter
    /\ UNCHANGED <<plugins, query, registry, initPc, scans, refreshing, debounce,
                   tasks>>

\* does resolve go on to fetch the README of the extension refresh returned
resolveFetchesReadme(exts, id) == exts[id].readmeUrl

\* the refresh of resolve ends with outcome o: without an extension resolve
\* throws; with one it fetches the README, or returns and onDidChange fires
ResolveRefreshDone(r, o) ==
    /\ r \in resolves
    /\ r.pc = "refresh"
    /\ extensions' = refreshExtensions(extensions, r.id, o)
    /\ IF ~refreshReturns(extensions, plugins, r.id, o)
       THEN /\ resolves' = resolves \ {r}
            /\ ev' = [NoEv EXCEPT !.op = "resolve", !.id = r.id, !.out = o,
                                   !.change = doChangeFires(FALSE, TRUE),
                                   !.ret = "error"]
       ELSE IF resolveFetchesReadme(extensions', r.id)
       THEN /\ resolves' = (resolves \ {r}) \cup {[r EXCEPT !.pc = "readme"]}
            /\ ev' = [NoEv EXCEPT !.op = "resolveRefreshed", !.id = r.id, !.out = o,
                                   !.ret = "awaiting"]
       ELSE /\ resolves' = resolves \ {r}
            /\ ev' = [NoEv EXCEPT !.op = "resolve", !.id = r.id, !.out = o,
                                   !.change = doChangeFires(FALSE, FALSE),
                                   !.ret = "ok"]
    /\ UNCHANGED windowVars
    /\ UNCHANGED containerVars
    /\ UNCHANGED iter
    /\ UNCHANGED <<plugins, query, installed, defaultInstalled, aliased,
                   searchResult, initPc, scans, refreshing, debounce, tasks, events>>

\* resolve with the readme cleared when the fetch fails
resolveReadmeClearing(e, o) ==
    [e EXCEPT !.readme = IF o = "ok" THEN compileReadme(RawReadme) ELSE NoStr]

\* the README of the extension after api.fetchText has ended with outcome o
resolveReadme(e, o) ==
    IF o = "ok" THEN [e EXCEPT !.readme = compileReadme(RawReadme)] ELSE e

\* api.fetchText ends with outcome o: resolve returns the extension and
\* onDidChange fires
ResolveReadmeDone(r, o) ==
    /\ r \in resolves
    /\ r.pc = "readme"
    /\ resolves' = resolves \ {r}
    /\ extensions' = [extensions EXCEPT ![r.id] = resolveReadme(@, o)]
    /\ ev' = [NoEv EXCEPT !.op = "resolve", !.id = r.id, !.out = o,
                           !.change = doChangeFires(FALSE, FALSE), !.ret = "ok"]
    /\ UNCHANGED windowVars
    /\ UNCHANGED containerVars
    /\ UNCHANGED iter
    /\ UNCHANGED <<plugins, query, installed, defaultInstalled, aliased,
                   searchResult, initPc, scans, refreshing, debounce, tasks, events>>

(***************************************************************************)
(* The specification.                                                      *)
(***************************************************************************)
Next ==
    \/ WillStart
    \/ \E p \in ChangingPlugins : PluginsChanged(p)
    \/ ScanRun
    \/ InitScanRun
    \/ \E id \in Ids, o \in RefreshOutcomes : RefreshDone(id, o)
    \/ \E q \in Queries : SetQuery(q)
    \/ DebounceFire
    \/ \E t \in tasks : SearchSkip(t)
    \/ \E t \in tasks : SearchEmpty(t)
    \/ \E t \in tasks : SearchFilter(t)
    \/ \E t \in tasks : SearchRemote(t)
    \/ \E t \in tasks : SearchApiDone(t)
    \/ \E t \in tasks : SearchApiFail(t)
    \/ \E id \in ResolveIds : ResolveCall(id)
    \/ \E r \in resolves, o \in RefreshOutcomes : ResolveRefreshDone(r, o)
    \/ \E r \in resolves, o \in FetchOutcomes : ResolveReadmeDone(r, o)

Spec == Init /\ [][Next]_vars

(***************************************************************************)
(* The consumers of the model: the view reads the accessors and the user    *)
(* types prefix queries of any kind.                                       *)
(***************************************************************************)
\* get installed(): this._installed.values(), an iterator over the Set
\* _installed is bound to
installedValues ==
    /\ events < MaxEvents
    /\ events' = events + 1
    /\ iter = NoIter
    /\ UNCHANGED windowVars
    /\ UNCHANGED containerVars
    /\ iter' = [set |-> "installed", taken |-> installed, left |-> installed,
                cur |-> TRUE, def |-> aliased]
    /\ ev' = [NoEv EXCEPT !.op = "installed"]
    /\ UNCHANGED <<plugins, query, registry, initPc, scans, refreshing, debounce,
                   tasks, resolves>>

\* get searchResult(): this._searchResult.values(), an iterator over the Set
\* _searchResult is bound to; that Set is never changed, only replaced
searchResultValues ==
    /\ events < MaxEvents
    /\ events' = events + 1
    /\ iter = NoIter
    /\ UNCHANGED windowVars
    /\ UNCHANGED containerVars
    /\ iter' = [set |-> "searchResult", taken |-> searchResult,
                left |-> searchResult, cur |-> FALSE, def |-> FALSE]
    /\ ev' = [NoEv EXCEPT !.op = "searchResult"]
    /\ UNCHANGED <<plugins, query, registry, initPc, scans, refreshing, debounce,
                   tasks, resolves>>

NextView ==
    \/ Next
    \/ installedValues
    \/ searchResultValues
    \/ \E q \in UnknownPrefixQueries : SetQuery(q)

SpecView == Init /\ [][NextView]_vars

(***************************************************************************)
(* The host deploys a further plugin, a built-in with a name and a         *)
(* description, and the user filters the built-ins by a text.              *)
(***************************************************************************)
NextHost ==
    \/ Next
    \/ \E p \in LatePlugins : PluginsChanged(p)
    \/ SetQuery(QBuiltinZ)

SpecHost == Init /\ [][NextHost]_vars

(***************************************************************************)
(* ElectronWindowService: the beforeunload listener, the quit confirmation *)
(* and the zoom level of the window.                                       *)
(***************************************************************************)
\* the listener without the test of the lock
beforeUnloadBranchNoLock(unloading, closeOn, can) ==
    IF closeOn \/ can THEN "unload" ELSE "confirm"

\* the listener with an unlocked unload that tests nothing
beforeUnloadBranchAlwaysUnload(unloading, closeOn, can) ==
    IF unloading THEN "prevent" ELSE "unload"

\* the branch the beforeunload listener takes
beforeUnloadBranch(unloading, closeOn, can) ==
    IF unloading THEN "prevent"
    ELSE IF closeOn \/ can THEN "unload"
    ELSE "confirm"

\* the listener runs for a beforeunload event; canUnload() returns can
beforeunload(can) ==
    LET branch == beforeUnloadBranch(isUnloading, closeOnUnload, can)
    IN /\ isUnloading' = (isUnloading \/ branch = "confirm")
       /\ confirmations' = IF branch = "confirm" THEN confirmations + 1
                           ELSE confirmations
       /\ winPc' = IF branch = "unload" THEN "unloaded" ELSE winPc
       /\ wev' = [NoWev EXCEPT !.op = "beforeunload", !.can = can,
                               !.prevented = (branch # "unload"),
                               !.onUnload = (branch = "unload"),
                               !.asked = (branch = "confirm")]
       /\ UNCHANGED <<closeOnUnload, prevPreferredZoomLevel, preferredZoomLevel,
                      windowZoomLevel>>

\* the user closes or reloads the window
BeforeUnload(can) ==
    /\ winPc = "listening"
    /\ beforeunload(can)
    /\ UNCHANGED closeRequested
    /\ UNCHANGED <<modelVars, containerVars>>

\* the beforeunload event of the window.close() call of the confirmation; the
\* call returns before the event is dispatched
CloseBeforeUnload(can) ==
    /\ winPc = "listening"
    /\ closeRequested
    /\ closeRequested' = FALSE
    /\ beforeunload(can)
    /\ wev'.op = "beforeunload"
    /\ UNCHANGED <<modelVars, containerVars>>

\* a 'Yes' that does not set closeOnUnload
confirmCloseOnUnloadKept(closeOn, yes) == closeOn

\* closeOnUnload after the answer to the dialog
confirmCloseOnUnload(closeOn, yes) == closeOn \/ yes

\* a lock that a 'No' does not release
confirmIsUnloadingHeldOnNo(yes) == ~yes

\* isUnloading at the end of the setTimeout callback
confirmIsUnloading(yes) == FALSE

\* the setTimeout callback of the listener: shouldUnload() shows the modal
\* dialog, which blocks until the user has answered
ConfirmQuit(yes) ==
    /\ winPc = "listening"
    /\ confirmations > 0
    /\ confirmations' = confirmations - 1
    /\ closeOnUnload' = confirmCloseOnUnload(closeOnUnload, yes)
    /\ closeRequested' = (closeRequested \/ yes)
    /\ isUnloading' = confirmIsUnloading(yes)
    /\ wev' = [NoWev EXCEPT !.op = "confirm", !.yes = yes]
    /\ UNCHANGED <<prevPreferredZoomLevel, winPc, preferredZoomLevel,
                   windowZoomLevel>>
    /\ UNCHANGED <<modelVars, containerVars>>

\* updateWindowZoomLevel without the test of prevPreferredZoomLevel
zoomPreferenceChangedAlways(prev, preferred) == TRUE

\* updateWindowZoomLevel: does the preference differ from the level applied
\* before
zoomPreferenceChanged(prev, preferred) == prev # <<preferred>>

\* updateWindowZoomLevel: is setZoomLevel called
callsSetZoomLevel(prev, preferred, current) ==
    zoomPreferenceChanged(prev, preferred) /\ current # preferred

\* updateWindowZoomLevel for the preference value preferred
updateWindowZoomLevel(preferred) ==
    /\ prevPreferredZoomLevel' =
           IF zoomPreferenceChanged(prevPreferredZoomLevel, preferred)
           THEN <<preferred>> ELSE prevPreferredZoomLevel
    /\ windowZoomLevel' =
           IF callsSetZoomLevel(prevPreferredZoomLevel, preferred, windowZoomLevel)
           THEN preferred ELSE windowZoomLevel

\* registerUnloadListeners: the listener is added, the zoom level is updated
\* and the service subscribes to the preference changes
registerUnloadListeners ==
    /\ winPc = "new"
    /\ winPc' = "listening"
    /\ updateWindowZoomLevel(preferredZoomLevel)
    /\ wev' = [NoWev EXCEPT !.op = "register", !.called = TRUE,
                            !.setZoom = callsSetZoomLevel(prevPreferredZoomLevel,
                                            preferredZoomLevel, windowZoomLevel)]
    /\ UNCHANGED <<isUnloading, closeOnUnload, confirmations, closeRequested,
                   preferredZoomLevel>>
    /\ UNCHANGED <<modelVars, containerVars>>

\* a preference change that affects window.zoomLevel, in any scope: the
\* effective value becomes z, which may be the value it had
PreferenceChanged(z) ==
    /\ winPc # "unloaded"
    /\ preferredZoomLevel' = z
    /\ IF winPc = "listening"
       THEN updateWindowZoomLevel(z)
       ELSE UNCHANGED <<prevPreferredZoomLevel, windowZoomLevel>>
    /\ wev' = [NoWev EXCEPT !.op = "preferenceChanged",
                            !.called = (winPc = "listening"),
                            !.setZoom = /\ winPc = "listening"
                                        /\ callsSetZoomLevel(prevPreferredZoomLevel,
                                               z, windowZoomLevel)]
    /\ UNCHANGED <<isUnloading, closeOnUnload, winPc, confirmations,
                   closeRequested>>
    /\ UNCHANGED <<modelVars, containerVars>>

\* the zoom level of the window changes without the preference (the zoom
\* commands of the window)
WindowZoomed(z) ==
    /\ winPc # "unloaded"
    /\ z # windowZoomLevel
    /\ windowZoomLevel' = z
    /\ wev' = [NoWev EXCEPT !.op = "zoomed"]
    /\ UNCHANGED <<isUnloading, closeOnUnload, prevPreferredZoomLevel, winPc,
                   confirmations, closeRequested, preferredZoomLevel>>
    /\ UNCHANGED <<modelVars, containerVars>>

NextWindow ==
    \/ registerUnloadListeners
    \/ \E can \in BOOLEAN : BeforeUnload(can)
    \/ \E can \in BOOLEAN : CloseBeforeUnload(can)
    \/ \E yes \in BOOLEAN : ConfirmQuit(yes)
    \/ \E z \in ZoomLevels : PreferenceChanged(z)
    \/ \E z \in ZoomLevels : WindowZoomed(z)

SpecWindow == Init /\ [][NextWindow]_vars

(***************************************************************************)
(* VSXExtensionsViewContainer with the model: the container is attached,   *)
(* its parts are registered and the search bar reports prefixes, while the  *)
(* user types queries and the model searches and filters.                  *)
(***************************************************************************)
\* onAfterAttach, at the first attachment and when the container is moved:
\* updateMode runs and the container subscribes to onDidChangeQuery
onAfterAttach ==
    /\ attached' = TRUE
    /\ updateMode(query)
    /\ ev' = [NoEv EXCEPT !.op = "attach", !.q = query]
    /\ UNCHANGED <<plugins, query, registry, initPc, scans, refreshing, debounce,
                   tasks, resolves, events, iter>>
    /\ UNCHANGED windowVars

\* the prefixes the search bar reports
Prefixes == {"builtin", "installed"}

\* the widget the handler of onDidPrefixQuery shows for a prefix
prefixWidget(prefix) ==
    IF prefix = "builtin" THEN BuiltInId ELSE InstalledId

\* showPart: the part of the widget is shown and is the current part, every
\* other part is hidden
showPart(widgetId) ==
    /\ parts' = [part \in DOMAIN parts |->
                    IF part = widgetId
                    THEN [parts[part] EXCEPT !.hidden = FALSE, !.collapsed = FALSE]
                    ELSE [parts[part] EXCEPT !.hidden = TRUE]]
    /\ currentPart' = IF widgetId \in DOMAIN parts THEN widgetId ELSE currentPart

\* the handler of searchBar.onDidPrefixQuery
onDidPrefixQuery(prefix) ==
    /\ attached
    /\ events < MaxEvents
    /\ events' = events + 1
    /\ showPart(prefixWidget(prefix))
    /\ ev' = [NoEv EXCEPT !.op = "prefixQuery"]
    /\ UNCHANGED <<attached, currentMode, lastModeState, noResultsMsgs>>
    /\ UNCHANGED <<plugins, query, registry, initPc, scans, refreshing, debounce,
                   tasks, resolves, iter>>
    /\ UNCHANGED windowVars

\* the queries the user types into the search bar of the container
ContainerQueries == Queries \cup {QBuiltinZ, QUnknown}

NextContainer ==
    \/ WillStart
    \/ InitScanRun
    \/ \E id \in Ids, o \in RefreshOutcomes : RefreshDone(id, o)
    \/ \E q \in ContainerQueries : SetQuery(q)
    \/ DebounceFire
    \/ \E t \in tasks : SearchSkip(t)
    \/ \E t \in tasks : SearchEmpty(t)
    \/ \E t \in tasks : SearchFilter(t)
    \/ \E t \in tasks : SearchRemote(t)
    \/ \E t \in tasks : SearchApiDone(t)
    \/ \E t \in tasks : SearchApiFail(t)
    \/ onAfterAttach
    \/ \E prefix \in Prefixes : onDidPrefixQuery(prefix)

SpecContainer == Init /\ [][NextContainer]_vars

(***************************************************************************)
(* The properties.                                                         *)
(***************************************************************************)
\* the lookups of a refresh that end in a failure: an error payload or a
\* thrown exception
FailedLookups == {"error", "throws"}

\* the lookups of a refresh that do not produce the extension
NoDataLookups == {"error", "nothing", "throws"}

\* the steps in which a refresh of ev.id ends
RefreshEnds == {"refresh", "resolve", "resolveRefreshed"}

\* C1: every id of installedIds, defaultInstalledIds and searchResultIds has
\* an entry in extensionsById, in every reachable state
C1_IdsHaveEntries ==
    \A id \in Range(installed) \cup Range(defaultInstalled) \cup searchResult :
        hasExtension(extensions, id)

\* a remote search has just committed while all three sets hold ids
C1_Witness ==
    /\ ev.op = "searchDone"
    /\ ev.out = "ok"
    /\ searchResult # {}
    /\ installed # <<>>
    /\ defaultInstalled # <<>>

\* no newer search update is pending or running and the search result is the
\* one of the current query: the newer update has committed
NewerCommitted ==
    /\ ~debounce.pending
    /\ \A t \in tasks : t.cancelled
    /\ searchBranch(query) = "remote"
    /\ searchResult = getSearchResults(SearchGroups(query))

\* C2: the result of a search task whose token a newer search update has
\* cancelled arrives after the newer update has committed: the late result
\* does not overwrite searchResultIds
C2_LateResultNeverOverwrites ==
    [][\A t \in tasks :
           (t.pc = "awaitApi" /\ t.cancelled /\ t \notin tasks' /\ NewerCommitted)
               => searchResult' = searchResult]_vars

\* C3: once every plugin-list change has been handled and its scan has run, a
\* search update with the empty query restores installed to the ids of the
\* supported-engine plugins the host reports
C3_ClearRestoresInstalled ==
    (ev.op = "search" /\ ev.q = QEmpty /\ ev.ret = "ok" /\ initPc = "done"
         /\ scans = 0)
        => Range(installed) = Range(scanned(plugins))

\* C4: a search update that runs with the empty query makes installed exactly
\* defaultInstalledIds and calls no remote search: no task of the empty query
\* ever awaits api.search
C4_EmptyQueryRestores ==
    /\ (ev.op = "search" /\ ev.q = QEmpty /\ ev.ret = "ok")
           => (installed = defaultInstalled /\ ~ev.remote)
    /\ \A t \in tasks : t.q = QEmpty => t.pc # "awaitApi"

\* a search update with the empty query has restored a non-empty snapshot
C4_Witness ==
    /\ ev.op = "search"
    /\ ev.q = QEmpty
    /\ ev.ret = "ok"
    /\ installed # <<>>

\* the installed extensions whose id, display name or description contains
\* the text, case-insensitively
InstalledMatching(text) ==
    {id \in plugins :
        /\ hasExtension(extensions, id)
        /\ \/ Contains(toLowerCase(id), toLowerCase(text))
           \/ Contains(toLowerCase(extensions[id].displayName), toLowerCase(text))
           \/ Contains(toLowerCase(extensions[id].description), toLowerCase(text))}

\* every supported plugin of the host has been refreshed from the registry
InstalledRefreshed ==
    \A id \in Range(scanned(plugins)) :
        hasExtension(extensions, id) /\ extensions[id].version # 0

\* C5: after the search update for "@installed A", run when every installed
\* extension has its metadata from the registry, the result set is the set of
\* the installed extensions whose id, display name or description contains
\* "A" case-insensitively, and onDidResults has fired with its size
C5_InstalledFilterIsMatchSet ==
    (ev.op = "filter" /\ ev.q = QInstalledA /\ InstalledRefreshed)
        => /\ Range(installed) = InstalledMatching(<<"A">>)
           /\ ev.results = Cardinality(InstalledMatching(<<"A">>))

\* C6: the installed-scan makes every supported plugin of the host a member of
\* installedIds whatever becomes of its refresh, and a refresh that ends with
\* an error payload or an exception changes neither installedIds nor the
\* registry entry
C6_FailedRefreshKeepsInstalled ==
    [][/\ ev'.op \in {"scan", "initScan"}
              => Range(scanned(plugins')) \subseteq Range(installed')
       /\ (ev'.op \in RefreshEnds /\ ev'.out \in FailedLookups)
              => (installed' = installed /\ extensions' = extensions)]_vars

\* the refresh of an installed extension that has metadata has failed, and the
\* extension is in installedIds
C6_Witness ==
    /\ ev.op = "refresh"
    /\ ev.out \in FailedLookups
    /\ ev.ret = "cached"
    /\ ev.id \in plugins
    /\ ev.id \in Range(installed)
    /\ extensions[ev.id].displayName # NoStr

C8_UnknownIdFails ==
    (ev.op \in {"resolve", "resolveRefreshed"} /\ ev.out \in NoDataLookups)
        => ev.ret = "error"

\* C8 as amended: resolve fails with a resolution error when the lookup
\* returns nothing, and when it returns an error or throws unless the registry
\* holds an entry of the id that is installed
C8_UnknownIdFailsUnlessInstalled ==
    (ev.op \in {"resolve", "resolveRefreshed"} /\ ev.out \in NoDataLookups)
        => (ev.ret = "error"
               <=> \/ ev.out = "nothing"
                   \/ ~hasExtension(extensions, ev.id)
                   \/ ev.id \notin plugins)

\* resolve has failed for an id whose lookup returned an error
C8_Witness ==
    /\ ev.op = "resolve"
    /\ ev.out = "error"
    /\ ev.ret = "error"

\* C9: when the README fetch of resolve fails (404 or any other error),
\* resolve still returns the extension and the registry, readme included, is
\* as it was
C9_ReadmeFailureIsNotFatal ==
    [][(ev'.op = "resolve" /\ ev'.out \in {"e404", "err"})
           => (ev'.ret = "ok" /\ extensions' = extensions)]_vars

\* resolve has returned after a failed README fetch and the readme is absent
C9_Witness ==
    /\ ev.op = "resolve"
    /\ ev.out \in {"e404", "err"}
    /\ ev.ret = "ok"
    /\ extensions[ev.id].readme = NoStr

\* C10: a query change inside a debounce window executes nothing and mutates
\* nothing; when the window ends exactly one search update starts, with the
\* query read at that time
C10_DebounceReadsLatestQuery ==
    [][/\ (debounce.pending /\ query' # query)
              => (debounce'.pending /\ tasks' = tasks /\ registry' = registry)
       /\ (debounce.pending /\ ~debounce'.pending)
              => /\ query' = query
                 /\ \E t \in tasks' :
                        /\ t = [q |-> query, pc |-> "pending", cancelled |-> FALSE]
                        /\ tasks' \ {t} = cancelTokens(tasks)]_vars

\* the window opened by the change to "a" has ended after the change to "ab",
\* and the one search update that ran read "ab"
C10_Witness ==
    /\ ev.op = "exec"
    /\ ev.first = QA
    /\ ev.out = "coalesced"
    /\ ev.q = QAB
    /\ query = QAB

\* a step in which a task run through doChange ends: a search update, an
\* installed-scan or a resolve
SearchTaskEnds(t) == t \in tasks /\ tasks' = tasks \ {t}

ScanTaskEnds == scans' < scans \/ (initPc = "scan" /\ initPc' = "done")

ResolveTaskEnds(r) ==
    r \in resolves /\ resolves' = resolves \ {r} /\ ev'.op = "resolve"

\* C11: onDidChange fires when a task run through doChange ends without
\* having thrown and without its token cancelled; it does not fire when the
\* token was cancelled before or during the task, when the task throws, or in
\* a step that ends no task
C11_ChangeFiresOncePerSuccess ==
    [][/\ \A t \in tasks :
              SearchTaskEnds(t)
                  => (ev'.change <=> (~t.cancelled /\ ev'.out # "rejected"))
       /\ ScanTaskEnds => ev'.change
       /\ \A r \in resolves :
              ResolveTaskEnds(r) => (ev'.change <=> ev'.ret # "error")
       /\ ev'.change
              => \/ \E t \in tasks : SearchTaskEnds(t)
                 \/ ScanTaskEnds
                 \/ \E r \in resolves : ResolveTaskEnds(r)]_vars

\* a remote search whose token was cancelled while it awaited api.search has
\* ended and onDidChange has not fired
C11_Witness ==
    /\ ev.op = "searchDone"
    /\ ev.out = "ok"
    /\ ev.ret = "cancelled"
    /\ ~ev.change

\* C12: an id that has an entry in extensionsById has one after every step
C12_RegistryOnlyGrows ==
    [][DOMAIN extensions \subseteq DOMAIN extensions']_vars

\* a scan has run after the uninstall of a.x: the id is in no id set and its
\* entry is still in the registry
C12_Witness ==
    /\ ev.op = "scan"
    /\ IdAX \notin plugins
    /\ IdAX \notin Range(installed) \cup Range(defaultInstalled) \cup searchResult
    /\ hasExtension(extensions, IdAX)

\* the search-update tasks that hold a token that is not cancelled
ActiveTasks == {t \in tasks : ~t.cancelled}

\* C13: at most one search-update task holds a token that is not cancelled
C13_OneActiveSearch == Cardinality(ActiveTasks) <= 1

\* two search updates await api.search, the older one with its token cancelled
C13_Witness ==
    /\ Cardinality(tasks) = 2
    /\ Cardinality(ActiveTasks) = 1
    /\ \A t \in tasks : t.pc = "awaitApi"

\* C14: a search update whose token was cancelled while it awaited api.search
\* ends without a visible change: extensionsById, installedIds and
\* searchResultIds are as they were and neither onDidResults nor onDidChange
\* fires
C14_CancelledSearchChangesNothing ==
    [][\A t \in tasks :
           (t.pc = "awaitApi" /\ t.cancelled /\ SearchTaskEnds(t))
               => /\ extensions' = extensions
                  /\ installed' = installed
                  /\ searchResult' = searchResult
                  /\ ev'.results = -1
                  /\ ~ev'.change]_vars

\* C15: while a resolve awaits its refresh of the id, the initial
\* installed-scan has run and populated the registry
C15_ResolveWaitsForPopulation ==
    \A r \in resolves : r.pc = "refresh" => initPc = "done"

\* C16: the sequence a consumer got from the installed or the searchResult
\* accessor yields the ids that were members of the set when the accessor was
\* called, whatever the model has run since
C16_AccessorsAreSnapshots ==
    iter # NoIter => iter.left = iter.taken

\* the result groups of a query that have a latest compatible version; a
\* group is named by the lower-case form of its namespace and name
CompatibleIds(q) == {g \in Range(SearchGroups(q)) : RemoteData(g).compatible}

\* C17: when a remote search whose token is not cancelled completes,
\* searchResultIds is the set of the lower-case namespace.name ids of the
\* result groups that have a latest compatible version, and a group without
\* one gets no registry entry
C17_SearchResultIsCompatibleIds ==
    [][\A t \in tasks :
           (t.pc = "awaitApi" /\ ~t.cancelled /\ SearchTaskEnds(t) /\ ev'.out = "ok")
               => /\ searchResult' = CompatibleIds(t.q)
                  /\ \A g \in Range(SearchGroups(t.q)) \ CompatibleIds(t.q) :
                         hasExtension(extensions', g) => hasExtension(extensions, g)]_vars

\* the search for "a" has completed: of its groups a.x, c.z and b.y the
\* incompatible c.z is in neither searchResultIds nor the registry
C17_Witness ==
    /\ ev.op = "searchDone"
    /\ ev.ret = "ok"
    /\ ev.q = QA
    /\ searchResult = {IdAX, IdBY}
    /\ ~hasExtension(extensions, IdCZ)

\* the query holds one of the keywords @installed and @builtin
HoldsKeyword(q) ==
    Contains(toLowerCase(q), AtInstalled) \/ Contains(toLowerCase(q), AtBuiltin)

\* the leading token of the query is one of the two keywords
PrefixIsKeyword(q) == toLowerCase(SplitFirst(q)) \in {AtInstalled, AtBuiltin}

\* C18 as claimed: every search or filter pass that completes fires
\* onDidResults with the size of the new result set
C18_EveryPassFiresResults ==
    (ev.op \in {"search", "filter", "searchDone"} /\ ev.ret = "ok")
        => /\ ev.results # -1
           /\ ev.results \in {Len(installed), Cardinality(searchResult)}

\* C18 as amended: a remote search whose api.search call resolves fires
\* onDidResults with the size of the new searchResultIds; a local filter pass
\* fires it, with the size of the new installed set, exactly when the query
\* holds a keyword; the pass of the empty query fires nothing
C18_ResultsFiredBySearchAndKeywordFilter ==
    /\ (ev.op = "searchDone" /\ ev.out = "ok")
           => ev.results = Cardinality(searchResult)
    /\ ev.op = "filter"
           => ev.results = IF HoldsKeyword(ev.q) THEN Len(installed) ELSE -1
    /\ ev.op = "search" => ev.results = -1

\* the search for "a", with three result groups, has fired onDidResults(2)
C18_Witness ==
    /\ ev.op = "searchDone"
    /\ ev.q = QA
    /\ ev.results = 2
    /\ Len(SearchGroups(ev.q)) = 3

\* C19: a filter pass for a query whose leading token is none of the two
\* keywords fires no onDidResults
C19_OnlyKeywordPrefixFires ==
    (ev.op = "filter" /\ ~PrefixIsKeyword(ev.q)) => ev.results = -1

FilterText(q) == toLowerCase(Trim(SubSeq(q, Len(SplitFirst(q)) + 1, Len(q))))

\* the id, the display name or the description of the entry contains the text
EntryContains(id, text) ==
    \/ Contains(toLowerCase(id), text)
    \/ Contains(toLowerCase(extensions[id].displayName), text)
    \/ Contains(toLowerCase(extensions[id].description), text)

\* the built-in extensions the host reports that have a registry entry
BuiltinEntries == {id \in plugins : IsSystemPlugin(id) /\ hasExtension(extensions, id)}

\* the leading token of the query is @builtin, in any case
PrefixIsBuiltin(q) == toLowerCase(SplitFirst(q)) = AtBuiltin

ScanOps == {"scan", "initScan"}

\* C22: when an installed-scan completes, installedIds is the set of the ids
\* of the plugins the host reports that have the engine type vscode
C22_ScanInstallsSupportedPlugins ==
    [][ev'.op \in ScanOps
           => Range(installed') = {id \in plugins' : EngineType(id) = "vscode"}]_vars

\* a scan has run after the uninstall of a.x: a.x, of the previous installed
\* set, and t.p, of another engine type, are no members
C22_Witness ==
    /\ ev.op = "scan"
    /\ installed = <<IdBY>>
    /\ IdAX \notin plugins
    /\ IdTP \in plugins

\* the display name of an installed id
NameOf(id) == extensions[id].displayName

\* C23 as claimed: after an installed-scan, of any two installed ids whose
\* entries have a display name the one with the smaller display name comes
\* first
C23_InstalledSortedByName ==
    ev.op \in ScanOps
        => \A i, j \in 1..Len(installed) :
               (i < j /\ NameOf(installed[i]) # NoStr /\ NameOf(installed[j]) # NoStr)
                   => localeCompare(NameOf(installed[i]), NameOf(installed[j])) <= 0

\* C23 as amended: after an installed-scan in which every installed entry has
\* a display name, installedIds is in ascending order of the display names
C23_NamedInstalledSortedByName ==
    (ev.op \in ScanOps /\ \A i \in 1..Len(installed) : NameOf(installed[i]) # NoStr)
        => \A i, j \in 1..Len(installed) :
               i < j => localeCompare(NameOf(installed[i]), NameOf(installed[j])) <= 0

\* a scan has put the three named extensions, which the host enumerates as
\* b.y ("Ab"), a.x ("Ba"), c.z ("ab"), in the order of their display names
C23_Witness ==
    /\ ev.op = "scan"
    /\ installed = <<IdCZ, IdBY, IdAX>>
    /\ \A i \in 1..Len(installed) : NameOf(installed[i]) # NoStr

\* C24: an installed-scan commits the new installedIds and fires onDidChange
\* while every refresh it has started is still running, and a refresh that
\* ends afterwards with an error payload or an exception changes nothing of
\* what the scan has committed and fires nothing
C24_RefreshesDoNotBlockScan ==
    [][/\ ev'.op \in ScanOps
              => /\ ev'.change /\ ev'.ret = "ok"
                 /\ Range(installed') = {id \in plugins : EngineType(id) = "vscode"}
                 /\ Range(installed') \subseteq refreshing'
                 /\ refreshing \subseteq refreshing'
       /\ (ev'.op = "refresh" /\ ev'.out \in FailedLookups)
              => /\ installed' = installed /\ defaultInstalled' = defaultInstalled
                 /\ scans' = scans /\ initPc' = initPc
                 /\ ~ev'.change]_vars

\* the initial scan has committed and fired onDidChange while the refresh of
\* every installed id is running and none has brought metadata yet
C24_Witness ==
    /\ ev.op = "initScan"
    /\ ev.change
    /\ installed # <<>>
    /\ Range(installed) \subseteq refreshing
    /\ \A id \in Range(installed) : NameOf(id) = NoStr

\* C25: no installed-scan runs and none is queued before willStart has
\* resolved, and the initial scan is followed, in this order, by the snapshot
\* of the scanned set as defaultInstalledIds and by the trigger of one
\* debounced search update, which starts no search task by itself
C25_BootstrapOrder ==
    [][/\ ev'.op \in ScanOps => initPc # "willStart"
       /\ initPc' = "willStart" => scans' = 0
       /\ ev'.op = "initScan"
              => /\ initPc = "scan" /\ initPc' = "done"
                 /\ Range(installed') = {id \in plugins : EngineType(id) = "vscode"}
                 /\ defaultInstalled' = installed'
                 /\ debounce'.pending
                 /\ tasks' = tasks]_vars

\* the initial scan has run behind a plugin change that willStart preceded:
\* the snapshot is the scanned set and a search update is pending
C25_Witness ==
    /\ ev.op = "initScan"
    /\ installed = <<IdBY>>
    /\ defaultInstalled = installed
    /\ debounce.pending
    /\ events > 0

\* C26: a refresh whose lookup returns an error payload or throws returns the
\* cached extension if and only if the registry holds an entry of the id and
\* the host reports the id as installed, returns nothing otherwise (resolve
\* then fails), and changes no registry entry and no id set
C26_FailedRefreshReturnsInstalledCached ==
    [][(ev'.op \in RefreshEnds /\ ev'.out \in FailedLookups)
           => LET cached == hasExtension(extensions, ev'.id) /\ ev'.id \in plugins
              IN /\ ev'.op = "refresh"
                        => ev'.ret = IF cached THEN "cached" ELSE "undefined"
                 /\ ev'.op # "refresh" => (ev'.ret = "error" <=> ~cached)
                 /\ registry' = registry]_vars

\* the failed refresh of an extension that has an entry and is no longer
\* installed has returned nothing
C26_Witness ==
    /\ ev.op = "refresh"
    /\ ev.out \in FailedLookups
    /\ ev.ret = "undefined"
    /\ hasExtension(extensions, ev.id)
    /\ ev.id \notin plugins
    /\ installed # <<>>

\* the steps of a search update
SearchOps == {"search", "filter", "searchDone"}

\* the query is neither empty nor a prefix query: the search is remote
IsRemoteQuery(q) == q # <<>> /\ q[1] # "@"

\* C27 as claimed: a search update, for any query, changes neither
\* installedIds nor defaultInstalledIds, and an installed-scan does not change
\* searchResultIds
C27_ScanAndSearchWriteDisjointSets ==
    [][/\ ev'.op \in SearchOps
              => (installed' = installed /\ defaultInstalled' = defaultInstalled)
       /\ ev'.op \in ScanOps => searchResult' = searchResult]_vars

\* C27 as amended: a search update for a query that is neither empty nor
\* starts with "@" changes neither installedIds nor defaultInstalledIds, and
\* an installed-scan does not change searchResultIds; a search update for the
\* empty query or a "@" query writes installedIds, and nothing else of the
\* three sets
C27_RemoteSearchAndScanWriteDisjointSets ==
    [][/\ (ev'.op \in SearchOps /\ IsRemoteQuery(ev'.q))
              => (installed' = installed /\ defaultInstalled' = defaultInstalled)
       /\ (ev'.op \in SearchOps /\ ~IsRemoteQuery(ev'.q))
              => (defaultInstalled' = defaultInstalled /\ searchResult' = searchResult)
       /\ ev'.op \in ScanOps => searchResult' = searchResult]_vars

\* a scan has run between the call of api.search and its result
C27_Witness ==
    /\ ev.op = "scan"
    /\ \E t \in tasks : t.pc = "awaitApi"
    /\ installed # <<>>

\* C28: when the api.search call of a search update rejects, the update
\* changes neither the registry nor an id set and fires neither onDidResults
\* nor onDidChange
C28_RejectedSearchChangesNothing ==
    [][\A t \in tasks :
           (t.pc = "awaitApi" /\ SearchTaskEnds(t) /\ ev'.out = "rejected")
               => /\ registry' = registry
                  /\ ev'.results = -1
                  /\ ~ev'.change]_vars

\* the api.search call of the current search update has rejected and the ids
\* of the search before it are still in searchResultIds
C28_Witness ==
    /\ ev.op = "searchDone"
    /\ ev.out = "rejected"
    /\ ev.q = query
    /\ searchResult # {}
    /\ searchResult # CompatibleIds(ev.q)

\* the query starts with "@" and its leading token matches none of the
\* keywords
UnknownPrefix(q) ==
    /\ q # <<>> /\ q[1] = "@"
    /\ ~Contains(toLowerCase(SplitFirst(q)), AtInstalled)
    /\ ~Contains(toLowerCase(SplitFirst(q)), AtBuiltin)

\* C29: a search update for a query that starts with "@" and whose leading
\* token matches neither @installed nor @builtin calls no remote search,
\* leaves searchResultIds as it is and makes installed empty
C29_UnknownPrefixEmptiesInstalled ==
    [][/\ \A t \in tasks' : UnknownPrefix(t.q) => t.pc = "pending"
       /\ (ev'.op \in SearchOps /\ UnknownPrefix(ev'.q) /\ ev'.ret # "cancelled")
              => /\ ~ev'.remote
                 /\ searchResult' = searchResult
                 /\ installed' = <<>>]_vars

\* the update for "@x" has emptied installed while a.x is installed with a
\* display name and a description and searchResultIds holds ids
C29_Witness ==
    /\ ev.op = "filter"
    /\ ev.q = QUnknown
    /\ installed = <<>>
    /\ searchResult # {}
    /\ IdAX \in plugins
    /\ hasExtension(extensions, IdAX)
    /\ extensions[IdAX].description # NoStr

\* the id satisfies the filter of the prefix query q
SatisfiesFilter(id, q) ==
    /\ id \in plugins
    /\ hasExtension(extensions, id)
    /\ PrefixIsBuiltin(q) => IsSystemPlugin(id)
    /\ extensions[id].displayName # NoStr
    /\ extensions[id].description # NoStr
    /\ EntryContains(id, FilterText(q))

\* C30: while the query is an @installed or @builtin query, the bootstrap is
\* over and no search update and no scan is pending or running, installed
\* holds only ids that satisfy the filter of the query
C30_FilterHoldsWhileQueryActive ==
    (/\ PrefixIsKeyword(query)
     /\ initPc = "done"
     /\ ~debounce.pending
     /\ tasks = {}
     /\ scans = 0)
        => \A id \in Range(installed) : SatisfiesFilter(id, query)


\* C31: while a quit confirmation is pending isUnloading is true, a
\* beforeunload event that finds isUnloading true is prevented, fires no
\* onUnload and schedules no confirmation, and at most one confirmation is
\* pending at any time
C31_UnloadingLocksListener ==
    [][/\ (wev'.op = "beforeunload" /\ isUnloading)
              => /\ wev'.prevented
                 /\ ~wev'.onUnload
                 /\ ~wev'.asked
                 /\ confirmations' = confirmations
                 /\ isUnloading'
       /\ confirmations' <= 1
       /\ isUnloading' <=> confirmations' = 1]_vars

\* a beforeunload event that the user could have unloaded with has been
\* prevented while a confirmation is pending
C31_Witness ==
    /\ wev.op = "beforeunload"
    /\ wev.can
    /\ wev.prevented
    /\ ~wev.asked
    /\ isUnloading
    /\ confirmations = 1

\* C32: a 'Yes' to the quit confirmation sets closeOnUnload and calls
\* window.close(); closeOnUnload stays true; the lock is released when the
\* beforeunload event of that call comes, and every beforeunload event that
\* finds closeOnUnload true is not prevented, fires onUnload and asks nothing
C32_YesClosesWithoutSecondPrompt ==
    [][/\ (wev'.op = "confirm" /\ wev'.yes) => (closeOnUnload' /\ closeRequested')
       /\ closeOnUnload => closeOnUnload'
       /\ closeRequested => (closeOnUnload /\ ~isUnloading)
       /\ (wev'.op = "beforeunload" /\ closeOnUnload)
              => /\ ~wev'.prevented
                 /\ wev'.onUnload
                 /\ ~wev'.asked
                 /\ winPc' = "unloaded"]_vars

\* the beforeunload event of the window.close() call has unloaded the window
\* although canUnload() returned false
C32_Witness ==
    /\ wev.op = "beforeunload"
    /\ ~wev.can
    /\ wev.onUnload
    /\ ~wev.prevented
    /\ closeOnUnload
    /\ ~closeRequested
    /\ winPc = "unloaded"

\* C33: a beforeunload event fires onUnload or is let through only when
\* closeOnUnload is true or canUnload() returns true, and closeOnUnload
\* becomes true only by a 'Yes' to the confirmation
C33_UnloadOnlyWhenAllowed ==
    [][/\ (wev'.op = "beforeunload" /\ (wev'.onUnload \/ ~wev'.prevented))
              => (closeOnUnload \/ wev'.can)
       /\ winPc' = "unloaded" /\ winPc # "unloaded"
              => (wev'.op = "beforeunload" /\ (closeOnUnload \/ wev'.can))
       /\ (closeOnUnload' /\ ~closeOnUnload)
              => (wev'.op = "confirm" /\ wev'.yes)]_vars

\* a beforeunload event has unloaded the window of a user who was never
\* asked, canUnload() having returned true
C33_Witness ==
    /\ wev.op = "beforeunload"
    /\ wev.can
    /\ wev.onUnload
    /\ ~closeOnUnload
    /\ winPc = "unloaded"

\* C34: the answer to the quit confirmation, 'Yes' or 'No', releases the
\* lock; a 'No' leaves closeOnUnload false; and a beforeunload event that
\* finds the lock released, closeOnUnload false and canUnload() false asks
\* again
C34_ConfirmationReleasesLock ==
    [][/\ wev'.op = "confirm"
              => /\ ~isUnloading'
                 /\ confirmations' = 0
                 /\ ~wev'.yes => ~closeOnUnload'
       /\ (wev'.op = "beforeunload" /\ ~isUnloading /\ ~closeOnUnload /\ ~wev'.can)
              => /\ wev'.asked
                 /\ wev'.prevented
                 /\ isUnloading'
                 /\ confirmations' = 1]_vars

\* the user has answered 'No': the lock is released, closeOnUnload is false
\* and the window listens on
C34_Witness ==
    /\ wev.op = "confirm"
    /\ ~wev.yes
    /\ ~isUnloading
    /\ ~closeOnUnload
    /\ confirmations = 0
    /\ winPc = "listening"

\* C35: updateWindowZoomLevel calls setZoomLevel only when the preferred
\* level differs from the level it applied before and from the zoom level of
\* the window, it leaves the zoom level of the window alone otherwise, and
\* when it returns prevPreferredZoomLevel is the value of the preference
C35_ZoomUpdatedOnlyOnChange ==
    [][wev'.called
           => /\ wev'.setZoom
                     => /\ prevPreferredZoomLevel # <<preferredZoomLevel'>>
                        /\ windowZoomLevel # preferredZoomLevel'
                        /\ windowZoomLevel' = preferredZoomLevel'
              /\ ~wev'.setZoom => windowZoomLevel' = windowZoomLevel
              /\ prevPreferredZoomLevel' = <<preferredZoomLevel'>>]_vars

\* updateWindowZoomLevel has run for an unchanged preference and has left
\* alone a window whose zoom level is another
C35_Witness ==
    /\ wev.op = "preferenceChanged"
    /\ wev.called
    /\ ~wev.setZoom
    /\ windowZoomLevel # preferredZoomLevel
    /\ prevPreferredZoomLevel = <<preferredZoomLevel>>


\* the mode the claim gives a query: the text of the query decides
ModeOfQuery(q) ==
    IF Len(q) = 0 THEN DefaultMode
    ELSE IF Len(q) >= 10 /\ SubSeq(q, 1, 10) = AtInstalled THEN InstalledMode
    ELSE IF Len(q) >= 8 /\ SubSeq(q, 1, 8) = AtBuiltin THEN BuiltinMode
    ELSE SearchResultMode

\* updateMode runs in the step: the container is attached, or it is attached
\* and the query changes
UpdatesMode == ev'.op = "attach" \/ (ev'.op = "setQuery" /\ attached)

\* the message for no results is absent or hidden
NoResultsHidden(msgs) == msgs = <<>> \/ msgs[1]

\* C36 as claimed: updateMode makes the mode the one of the query, the mode
\* is never the initial mode again, and updateMode changes nothing when the
\* mode of the query is the current mode
C36_ModeFollowsQueryOrNothingChanges ==
    [][/\ UpdatesMode
              => /\ currentMode' = ModeOfQuery(query')
                 /\ ModeOfQuery(query') = currentMode
                        => UNCHANGED <<currentMode, parts, currentPart,
                                       lastModeState, noResultsMsgs>>
       /\ currentMode # InitialMode => currentMode' # InitialMode]_vars

\* C36 as amended: updateMode makes the mode the one of the query, the mode
\* is never the initial mode again, and when the mode of the query is the
\* current mode updateMode changes no mode, part or stored state; it hides
\* the message for no results when the query is empty
C36_ModeFollowsQuery ==
    [][/\ UpdatesMode
              => /\ currentMode' = ModeOfQuery(query')
                 /\ ModeOfQuery(query') = currentMode
                        => /\ UNCHANGED <<currentMode, parts, currentPart,
                                          lastModeState>>
                           /\ Len(query') # 0 => noResultsMsgs' = noResultsMsgs
                           /\ Len(query') = 0 => NoResultsHidden(noResultsMsgs')
       /\ currentMode # InitialMode => currentMode' # InitialMode]_vars

\* the container was attached with the query "a" and the query has become
\* "ab": updateMode has found the mode of the query to be the current mode
C36_Witness ==
    /\ ev.op = "setQuery"
    /\ ev.q = QAB
    /\ attached
    /\ currentMode = SearchResultMode
    /\ \A mode \in DOMAIN lastModeState : lastModeState[mode] = NoState

\* the part the claim gives a mode
PartOfMode(mode) ==
    CASE mode = SearchResultMode -> SearchResultId
      [] mode = InstalledMode -> InstalledId
      [] mode = BuiltinMode -> BuiltInId
      [] OTHER -> NoPart

\* the visibility of the parts is that of the current mode
VisibilityMatchesMode ==
    IF currentMode = DefaultMode
    THEN \A part \in DOMAIN parts :
             parts[part].hidden <=> part = SearchResultId
    ELSE /\ \A part \in DOMAIN parts :
                parts[part].hidden <=> part # PartOfMode(currentMode)
         /\ ~parts[PartOfMode(currentMode)].collapsed
         /\ currentPart = PartOfMode(currentMode)

C38_ContainerAndModelClassifyAlike ==
    (/\ attached
     /\ ev.q = query
     /\ \/ ev.op \in {"filter", "searchDone"}
        \/ ev.op = "search" /\ ev.ret = "ok")
        => /\ (ev.op = "filter"
                  /\ Contains(toLowerCase(SplitFirst(ev.q)), AtInstalled))
                  => currentMode = InstalledMode
           /\ (ev.op = "filter"
                  /\ Contains(toLowerCase(SplitFirst(ev.q)), AtBuiltin)
                  /\ ~Contains(toLowerCase(SplitFirst(ev.q)), AtInstalled))
                  => currentMode = BuiltinMode
           /\ currentMode = SearchResultMode => ev.op = "searchDone"

====
